---- MODULE Spec2Model ----
(***************************************************************************)
(* A model of the BANKACCOUNT repository.                                  *)
(*                                                                         *)
(*   src/bank_account_integration.py  NotificationSystem and the notifying *)
(*                                    BankAccount (balance, history,       *)
(*                                    optional notification system)        *)
(*   src/bank_account.py              the plain BankAccount (balance only) *)
(*                                                                         *)
(* Amounts and balances are Python ints (exact, unbounded arithmetic).     *)
(* Every method is one atomic action: the program is single-threaded and   *)
(* synchronous, so a caller only ever observes the state between calls.    *)
(* What a method does on its way (the calls it makes to the notification   *)
(* system, and the account state visible at each of them) and what it      *)
(* hands back to the caller is recorded in the variable last.              *)
(***************************************************************************)
EXTENDS Integers, Sequences, FiniteSets, TLC

\* ------------------------------------------------------------------ bounds
\* Largest amount a caller passes; callers also pass 0 and negative amounts.
MaxAmount == 2
\* Largest initial balance handed to a constructor (the smallest is -1).
MaxInitial == 2
\* Successful operations explored per account (length of its history).
MaxHist == 2
\* Largest balance explored for the plain BankAccount, which keeps no history.
MaxPlainBalance == 5
\* Longest log a caller fills by calling send_notification itself.
MaxLog == 2

\* Successful operations explored on two accounts together.
MaxPairOps == 3

Amounts == -1..MaxAmount
InitialBalances == -1..MaxInitial

\* The accounts and notification systems constructed by the caller.
Accounts == {"a1"}
Notifiers == {"n1"}
\* Python's None: no notification system attached.
None == "None"

VARIABLES
    \* bank_account_integration.BankAccount, one entry per constructed account
    balance,               \* self.balance
    transaction_history,   \* self.transaction_history
    notification_system,   \* self.notification_system (a Notifier or None)
    \* bank_account_integration.NotificationSystem, one entry per instance
    notifications,         \* self.notifications
    \* history variables
    initial,               \* the constructor arguments of each account
    reattached,            \* set_notification_system was called on the account
    cleared,               \* clear_notifications was called on the notifier
    successes,             \* deposit/withdraw calls on the account that returned True
    last,                  \* the last call: operation, arguments, outcome, sends
    \* bank_account.BankAccount (one instance)
    plain_balance,         \* self.balance
    plain_initial,         \* its constructor argument
    plain_last             \* the last call on it

acctVars == <<balance, transaction_history, notification_system, notifications,
              initial, reattached, cleared, successes, last>>
plainVars == <<plain_balance, plain_initial, plain_last>>
vars == <<balance, transaction_history, notification_system, notifications,
          initial, reattached, cleared, successes, last,
          plain_balance, plain_initial, plain_last>>

\* The record a call leaves in last: the method, the object it was called on,
\* its argument (0 when it takes none), what it returned or raised, and the
\* send_notification invocations it made.
Call(op, acc, amount, result, sends) ==
    [op |-> op, acc |-> acc, amount |-> amount, result |-> result, sends |-> sends]

\* --------------------------------------------------------- pure helpers
Abs(x) == IF x < 0 THEN 0 - x ELSE x

\* format(x, ".2f") of an int: sign, integer digits, and the two fractional
\* digits, which are "00" for every int.
Fmt2(x) == [sign |-> IF x < 0 THEN "-" ELSE "", whole |-> Abs(x), frac |-> "00"]

\* Variant: the two values are interpolated in the wrong places.
DepositMessageSwapped(amount, bal) ==
    [text |-> "Deposit of $_ successful. New balance: $_",
     amount |-> Fmt2(bal), balance |-> Fmt2(amount)]

\* f"Deposit of ${amount:.2f} successful. New balance: ${self.balance:.2f}"
DepositMessage(amount, bal) ==
    [text |-> "Deposit of $_ successful. New balance: $_",
     amount |-> Fmt2(amount), balance |-> Fmt2(bal)]

\* f"Withdrawal of ${amount:.2f} successful. New balance: ${self.balance:.2f}"
WithdrawalMessage(amount, bal) ==
    [text |-> "Withdrawal of $_ successful. New balance: $_",
     amount |-> Fmt2(amount), balance |-> Fmt2(bal)]

\* ------------------------------------------------- NotificationSystem
\* NotificationSystem.__init__: self.notifications = []
NewNotifications == <<>>

\* Variant: the new record goes to the front of the log.
send_notification_first(log, message, notification_type) ==
    <<[message |-> message, type |-> notification_type, timestamp |-> None]>> \o log

\* Variant: the log is assigned the new record (= [..] for .append(..)).
send_notification_replaces(log, message, notification_type) ==
    <<[message |-> message, type |-> notification_type, timestamp |-> None]>>

\* NotificationSystem.send_notification: the log after the call. The call
\* builds {'message', 'type', 'timestamp': None}, appends it and returns True.
send_notification(log, message, notification_type) ==
    Append(log, [message |-> message, type |-> notification_type, timestamp |-> None])

\* ------------------------------------------- the notifying BankAccount
\* Variant: the test lets zero through (>= for >).
DepositAcceptsZero(amount) == amount >= 0

\* deposit's test: amount > 0
DepositAccepts(amount) == amount > 0

\* Variant: the test forgets the balance (an overdraft goes through).
WithdrawAcceptsOverdraft(amount, bal) == 0 < amount

\* Variant: the upper bound is strict (< for <=).
WithdrawAcceptsStrict(amount, bal) == 0 < amount /\ amount < bal

\* withdraw's test: 0 < amount <= self.balance
WithdrawAccepts(amount, bal) == 0 < amount /\ amount <= bal

\* The part of the program state one call on account acc works on, and the
\* sends it has made so far.
Frame(acc) ==
    [balance |-> balance[acc], history |-> transaction_history[acc],
     log |-> notifications, sends |-> <<>>]

\* Variant: = for +=.
CreditAssigns(s, amount) == [s EXCEPT !.balance = amount]

\* self.balance += amount
Credit(s, amount) == [s EXCEPT !.balance = @ + amount]

\* Variant: += for -=.
DebitAdds(s, amount) == [s EXCEPT !.balance = @ + amount]

\* Variant: a withdrawal empties the account.
DebitAll(s, amount) == [s EXCEPT !.balance = 0]

\* self.balance -= amount
Debit(s, amount) == [s EXCEPT !.balance = @ - amount]

\* Variant: the append is missing.
RecordNothing(s, type, amount) == s

\* Variant: balance_after holds the change of the balance, not the balance.
RecordDelta(s, type, amount) ==
    [s EXCEPT !.history =
        Append(@, [type |-> type, amount |-> amount, balance_after |-> amount])]

\* Variant: the record is inserted at the front of the history.
RecordPrepends(s, type, amount) ==
    [s EXCEPT !.history =
        <<[type |-> type, amount |-> amount, balance_after |-> s.balance]>> \o @]

\* Variant: a withdrawal is recorded with a negative amount.
RecordSigned(s, type, amount) ==
    [s EXCEPT !.history =
        Append(@, [type |-> type,
                   amount |-> IF type = "withdrawal" THEN 0 - amount ELSE amount,
                   balance_after |-> s.balance])]

\* self.transaction_history.append({'type', 'amount', 'balance_after': self.balance})
Record(s, type, amount) ==
    [s EXCEPT !.history =
        Append(@, [type |-> type, amount |-> amount, balance_after |-> s.balance])]

\* Variant: the notification is never sent.
NotifyNever(s, ns, message, type) == s

\* Variant: an account with a notifier pays 1 for every notification.
NotifyCharges(s, ns, message, type) ==
    IF ns # None
    THEN [s EXCEPT !.balance = @ - 1,
                   !.log[ns] = send_notification(@, message, type),
                   !.sends = Append(@, [notifier |-> ns, message |-> message,
                                        type |-> type, balance |-> s.balance,
                                        history |-> s.history])]
    ELSE s

\* if self.notification_system: self.notification_system.send_notification(message, type)
\* The value send_notification returns is dropped. sends keeps, for each
\* invocation, its arguments and the account state at that moment.
Notify(s, ns, message, type) ==
    IF ns # None
    THEN [s EXCEPT !.log[ns] = send_notification(@, message, type),
                   !.sends = Append(@, [notifier |-> ns, message |-> message,
                                        type |-> type, balance |-> s.balance,
                                        history |-> s.history])]
    ELSE s

\* Variant: the notification is sent before the record is appended.
DepositStepsNotifyFirst(s, amount, ns) ==
    LET s1 == Credit(s, amount)
        s2 == Notify(s1, ns, DepositMessage(amount, s1.balance), "deposit")
    IN  Record(s2, "deposit", amount)

\* The body of deposit's accepting branch, statement by statement.
DepositSteps(s, amount, ns) ==
    LET s1 == Credit(s, amount)
        s2 == Record(s1, "deposit", amount)
    IN  Notify(s2, ns, DepositMessage(amount, s2.balance), "deposit")

\* Variant: the balance changes and the notification goes out, with no record.
WithdrawStepsNoRecord(s, amount, ns) ==
    LET s1 == Debit(s, amount)
    IN  Notify(s1, ns, WithdrawalMessage(amount, s1.balance), "withdrawal")

\* The body of withdraw's accepting branch, statement by statement.
WithdrawSteps(s, amount, ns) ==
    LET s1 == Debit(s, amount)
        s2 == Record(s1, "withdrawal", amount)
    IN  Notify(s2, ns, WithdrawalMessage(amount, s2.balance), "withdrawal")

\* Variant: the history is one list shared by every account (a class
\* attribute, not an attribute set in __init__).
CommitSharedHistory(acc, op, amount, s, result) ==
    /\ balance' = [balance EXCEPT ![acc] = s.balance]
    /\ transaction_history' = [a \in DOMAIN transaction_history |-> s.history]
    /\ notifications' = s.log
    /\ last' = Call(op, acc, amount, result, s.sends)
    /\ successes' = [successes EXCEPT ![acc] = IF result = "True" THEN @ + 1 ELSE @]
    /\ UNCHANGED <<notification_system, initial, reattached, cleared>>

\* The state after a call on acc that ended in frame s with the given result.
Commit(acc, op, amount, s, result) ==
    /\ balance' = [balance EXCEPT ![acc] = s.balance]
    /\ transaction_history' = [transaction_history EXCEPT ![acc] = s.history]
    /\ notifications' = s.log
    /\ last' = Call(op, acc, amount, result, s.sends)
    /\ successes' = [successes EXCEPT ![acc] = IF result = "True" THEN @ + 1 ELSE @]
    /\ UNCHANGED <<notification_system, initial, reattached, cleared>>

\* BankAccount.deposit(amount)
Deposit(acc, amount) ==
    IF DepositAccepts(amount)
    THEN /\ Len(transaction_history[acc]) < MaxHist
         /\ Commit(acc, "deposit", amount,
                   DepositSteps(Frame(acc), amount, notification_system[acc]), "True")
    ELSE Commit(acc, "deposit", amount, Frame(acc), "False")

\* Python values other than plain ints that a caller may pass as amount.
PyInt(n) == [kind |-> "int", v |-> n]
NonNumericKinds == {"str", "NoneType", "list", "dict", "tuple", "complex"}
NonNumeric == {[kind |-> k, v |-> "object"] : k \in NonNumericKinds}
NaN == [kind |-> "float", v |-> "nan"]
PosInf == [kind |-> "float", v |-> "inf"]
NegInf == [kind |-> "float", v |-> "-inf"]

\* Variant: an amount that cannot be compared counts as not positive.
PyGreaterThanZeroLenient(value) ==
    CASE value.kind = "int" -> IF value.v > 0 THEN "True" ELSE "False"
      [] value.kind = "float" -> IF value.v = "inf" THEN "True" ELSE "False"
      [] OTHER -> "False"

\* Python's amount > 0 in deposit's test: ints compare by value; inf > 0 is
\* True, nan > 0 and -inf > 0 are False; str, None, list, dict, tuple and
\* complex do not support > with an int and the comparison raises TypeError.
PyGreaterThanZero(value) ==
    CASE value.kind = "int" -> IF value.v > 0 THEN "True" ELSE "False"
      [] value.kind = "float" -> IF value.v = "inf" THEN "True" ELSE "False"
      [] OTHER -> "TypeError"

\* format(x, ".2f") of inf
FmtInf == [sign |-> "", whole |-> "inf", frac |-> ""]

\* The body of deposit's accepting branch for an amount given as a Python
\* value. An int goes the way of DepositSteps. The only float accepted here
\* is inf: balance + inf is inf, and the record and the message hold inf.
DepositValueSteps(s, value, ns) ==
    IF value.kind = "int"
    THEN DepositSteps(s, value.v, ns)
    ELSE LET s1 == [s EXCEPT !.balance = PosInf]
             s2 == [s1 EXCEPT !.history =
                       Append(@, [type |-> "deposit", amount |-> value,
                                  balance_after |-> s1.balance])]
         IN  Notify(s2, ns,
                    [text |-> "Deposit of $_ successful. New balance: $_",
                     amount |-> FmtInf, balance |-> FmtInf], "deposit")

\* BankAccount.deposit(amount) for an amount given as a Python value. A
\* comparison that raises ends the call before any statement of the body.
\* Calls on an account whose balance has become inf are not explored.
DepositValue(acc, value) ==
    /\ ~(last.op = "deposit" /\ last.result = "True" /\ last.amount.kind = "float")
    /\ LET test == PyGreaterThanZero(value)
       IN  IF test = "True"
           THEN /\ Len(transaction_history[acc]) < MaxHist
                /\ Commit(acc, "deposit", value,
                          DepositValueSteps(Frame(acc), value, notification_system[acc]),
                          "True")
           ELSE Commit(acc, "deposit", value, Frame(acc), test)

\* BankAccount.withdraw(amount)
Withdraw(acc, amount) ==
    IF WithdrawAccepts(amount, balance[acc])
    THEN /\ Len(transaction_history[acc]) < MaxHist
         /\ Commit(acc, "withdraw", amount,
                   WithdrawSteps(Frame(acc), amount, notification_system[acc]), "True")
    ELSE Commit(acc, "withdraw", amount, Frame(acc), "False")

\* A stand-in for the notification system (unittest.mock.MagicMock with
\* send_notification.side_effect set): send_notification records the call
\* and returns the value the caller configured for it.
SendReturns == {"True", "False"}

\* The frame of a call whose send_notification went to the stand-in: the
\* recorded call and the entry in sends carry the value it returned.
StubReturns(s, ns, returned) ==
    IF s.sends = <<>>
    THEN s
    ELSE [s EXCEPT
            !.log[ns] = [@ EXCEPT ![Len(@)] =
                           [message |-> @.message, type |-> @.type,
                            timestamp |-> @.timestamp, returned |-> returned]],
            !.sends = [i \in DOMAIN @ |-> [call |-> @[i], returned |-> returned]]]

\* Variant: the call hands on what send_notification returned.
ResultAfterSendPropagates(s) ==
    IF s.sends = <<>> THEN "True" ELSE s.sends[Len(s.sends)].returned

\* self.notification_system.send_notification(...) is an expression statement,
\* its value is not bound to anything; the next statement is return True.
ResultAfterSend(s) == "True"

\* BankAccount.deposit(amount) on an account whose notifier is the stand-in.
DepositStubbed(acc, amount, returned) ==
    IF DepositAccepts(amount)
    THEN /\ Len(transaction_history[acc]) < MaxHist
         /\ LET ns == notification_system[acc]
                s == StubReturns(DepositSteps(Frame(acc), amount, ns), ns, returned)
            IN  Commit(acc, "deposit", amount, s, ResultAfterSend(s))
    ELSE Commit(acc, "deposit", amount, Frame(acc), "False")

\* BankAccount.withdraw(amount) on an account whose notifier is the stand-in.
WithdrawStubbed(acc, amount, returned) ==
    IF WithdrawAccepts(amount, balance[acc])
    THEN /\ Len(transaction_history[acc]) < MaxHist
         /\ LET ns == notification_system[acc]
                s == StubReturns(WithdrawSteps(Frame(acc), amount, ns), ns, returned)
            IN  Commit(acc, "withdraw", amount, s, ResultAfterSend(s))
    ELSE Commit(acc, "withdraw", amount, Frame(acc), "False")

\* Variant: attaching a notifier replays the latest operation to it.
SetNotificationSystemReplays(acc, ns) ==
    /\ notification_system' = [notification_system EXCEPT ![acc] = ns]
    /\ reattached' = [reattached EXCEPT ![acc] = TRUE]
    /\ notifications' =
          IF ns # None /\ transaction_history[acc] # <<>>
          THEN [notifications EXCEPT ![ns] =
                  send_notification(@, DepositMessage(0, balance[acc]), "deposit")]
          ELSE notifications
    /\ last' = Call("set_notification_system", acc, 0, "None", <<>>)
    /\ UNCHANGED <<balance, transaction_history, initial, cleared, successes>>

\* BankAccount.set_notification_system(notification_system)
SetNotificationSystem(acc, ns) ==
    /\ notification_system' = [notification_system EXCEPT ![acc] = ns]
    /\ reattached' = [reattached EXCEPT ![acc] = TRUE]
    /\ last' = Call("set_notification_system", acc, 0, "None", <<>>)
    /\ UNCHANGED <<balance, transaction_history, notifications, initial, cleared, successes>>

\* BankAccount.get_balance(): return self.balance
GetBalance(acc) ==
    /\ last' = Call("get_balance", acc, 0, balance[acc], <<>>)
    /\ UNCHANGED <<balance, transaction_history, notification_system, notifications,
                   initial, reattached, cleared, successes>>

\* Variant: the read hands the history over and starts a new one.
GetTransactionHistoryConsumes(acc) ==
    /\ last' = Call("get_transaction_history", acc, 0, transaction_history[acc], <<>>)
    /\ transaction_history' = [transaction_history EXCEPT ![acc] = <<>>]
    /\ UNCHANGED <<balance, notification_system, notifications,
                   initial, reattached, cleared, successes>>

\* BankAccount.get_transaction_history(): return self.transaction_history
GetTransactionHistory(acc) ==
    /\ last' = Call("get_transaction_history", acc, 0, transaction_history[acc], <<>>)
    /\ UNCHANGED <<balance, transaction_history, notification_system, notifications,
                   initial, reattached, cleared, successes>>

\* What get_transaction_history hands out: the account's own list object
\* ("internal"), not a copy of it ("copy").
ReturnedHistory == "internal"

\* What a caller can do to a Python list it holds.
ListEdits == {"append", "pop", "setitem"}

\* A record of the caller's own making.
ForeignRecord == [type |-> "deposit", amount |-> 0, balance_after |-> 0]

\* list.append(x), list.pop(), list[0] = x
EditList(list, edit) ==
    CASE edit = "append" -> Append(list, ForeignRecord)
      [] edit = "pop" -> SubSeq(list, 1, Len(list) - 1)
      [] edit = "setitem" -> [list EXCEPT ![1] = ForeignRecord]

\* The caller edits the list get_transaction_history returned to it:
\* account.get_transaction_history().append(x), and so on. pop and setitem
\* need a non-empty list (they raise IndexError on an empty one). The edits
\* explored stop once one of them has changed the length of the list.
EditReturnedHistory(acc, edit) ==
    /\ Len(transaction_history[acc]) = successes[acc]
    /\ edit = "append" => Len(transaction_history[acc]) < MaxHist
    /\ edit # "append" => transaction_history[acc] # <<>>
    /\ transaction_history' =
          IF ReturnedHistory = "internal"
          THEN [transaction_history EXCEPT ![acc] = EditList(@, edit)]
          ELSE transaction_history
    /\ last' = Call("edit_returned_history", acc, 0, "None", <<>>)
    /\ UNCHANGED <<balance, notification_system, notifications,
                   initial, reattached, cleared, successes>>

\* A call that leaves out notification_type.
Omitted == "omitted"

\* def send_notification(self, message, notification_type='info')
DefaultType(type) == IF type = Omitted THEN "info" ELSE type

\* The messages and types a caller of send_notification passes.
CallerMessages == {[text |-> "hello"], [text |-> "bye"]}
CallerTypes == {Omitted, "info", "deposit"}

\* NotificationSystem.send_notification(message[, notification_type]) called
\* by the caller itself; it returns True.
SendNotification(n, message, type) ==
    /\ Len(notifications[n]) < MaxLog
    /\ notifications' =
          [notifications EXCEPT ![n] = send_notification(@, message, DefaultType(type))]
    /\ last' = Call("send_notification", n, [message |-> message, type |-> type],
                    "True", <<>>)
    /\ UNCHANGED <<balance, transaction_history, notification_system,
                   initial, reattached, cleared, successes>>

\* NotificationSystem.get_notifications(): return self.notifications
GetNotifications(n) ==
    /\ last' = Call("get_notifications", n, 0, notifications[n], <<>>)
    /\ UNCHANGED <<balance, transaction_history, notification_system, notifications,
                   initial, reattached, cleared, successes>>

\* Variant: the log is left as it is (the assignment is missing).
ClearNotificationsKeeps(n) ==
    /\ cleared' = [cleared EXCEPT ![n] = TRUE]
    /\ last' = Call("clear_notifications", n, 0, "None", <<>>)
    /\ UNCHANGED <<balance, transaction_history, notification_system, notifications,
                   initial, reattached, successes>>

\* NotificationSystem.clear_notifications()
ClearNotifications(n) ==
    /\ notifications' = [notifications EXCEPT ![n] = <<>>]
    /\ cleared' = [cleared EXCEPT ![n] = TRUE]
    /\ last' = Call("clear_notifications", n, 0, "None", <<>>)
    /\ UNCHANGED <<balance, transaction_history, notification_system, initial, reattached,
                   successes>>

\* BankAccount.__init__(initial_balance, notification_system) for every account,
\* NotificationSystem.__init__() for every notifier.
InitAccounts(balances, systems) ==
    /\ balance \in [Accounts -> balances]
    /\ notification_system \in [Accounts -> systems]
    /\ transaction_history = [acc \in Accounts |-> <<>>]
    /\ notifications = [n \in Notifiers |-> NewNotifications]
    /\ initial = [acc \in Accounts |->
                    [balance |-> balance[acc],
                     notification_system |-> notification_system[acc]]]
    /\ reattached = [acc \in Accounts |-> FALSE]
    /\ cleared = [n \in Notifiers |-> FALSE]
    /\ successes = [acc \in Accounts |-> 0]
    /\ last = Call("__init__", None, 0, "None", <<>>)

\* The same constructors, with the notification systems named by the caller.
InitAccountsWith(notifiers, balances, systems) ==
    /\ balance \in [Accounts -> balances]
    /\ notification_system \in [Accounts -> systems]
    /\ transaction_history = [acc \in Accounts |-> <<>>]
    /\ notifications = [n \in notifiers |-> NewNotifications]
    /\ initial = [acc \in Accounts |->
                    [balance |-> balance[acc],
                     notification_system |-> notification_system[acc]]]
    /\ reattached = [acc \in Accounts |-> FALSE]
    /\ cleared = [n \in notifiers |-> FALSE]
    /\ successes = [acc \in Accounts |-> 0]
    /\ last = Call("__init__", None, 0, "None", <<>>)

\* Two accounts constructed by one caller.
TwoAccounts == {"a1", "a2"}

\* BankAccount.__init__ for each of the two accounts, NotificationSystem.__init__
\* for every notifier.
InitTwoAccounts(balances, systems) ==
    /\ balance \in [TwoAccounts -> balances]
    /\ notification_system \in [TwoAccounts -> systems]
    /\ transaction_history = [acc \in TwoAccounts |-> <<>>]
    /\ notifications = [n \in Notifiers |-> NewNotifications]
    /\ initial = [acc \in TwoAccounts |->
                    [balance |-> balance[acc],
                     notification_system |-> notification_system[acc]]]
    /\ reattached = [acc \in TwoAccounts |-> FALSE]
    /\ cleared = [n \in Notifiers |-> FALSE]
    /\ successes = [acc \in TwoAccounts |-> 0]
    /\ last = Call("__init__", None, 0, "None", <<>>)

\* ------------------------------------------------ the plain BankAccount
PlainCall(op, amount, result) == [op |-> op, amount |-> amount, result |-> result]

\* Variant: the test lets zero through (>= for >).
PlainDepositAcceptsZero(amount) == amount >= 0

\* deposit's test: amount > 0
PlainDepositAccepts(amount) == amount > 0

\* Variant: the test forgets the lower bound.
PlainWithdrawAcceptsNegative(amount, bal) == amount <= bal

\* Variant: the test forgets the balance.
PlainWithdrawAcceptsOverdraft(amount, bal) == 0 < amount

\* withdraw's test: 0 < amount <= self.balance
PlainWithdrawAccepts(amount, bal) == 0 < amount /\ amount <= bal

\* bank_account.BankAccount.deposit(amount)
PlainDeposit(amount) ==
    IF PlainDepositAccepts(amount)
    THEN /\ plain_balance + amount <= MaxPlainBalance
         /\ plain_balance' = plain_balance + amount
         /\ plain_last' = PlainCall("deposit", amount, "True")
         /\ UNCHANGED plain_initial
    ELSE /\ plain_last' = PlainCall("deposit", amount, "False")
         /\ UNCHANGED <<plain_balance, plain_initial>>

\* bank_account.BankAccount.withdraw(amount)
PlainWithdraw(amount) ==
    IF PlainWithdrawAccepts(amount, plain_balance)
    THEN /\ plain_balance' = plain_balance - amount
         /\ plain_last' = PlainCall("withdraw", amount, "True")
         /\ UNCHANGED plain_initial
    ELSE /\ plain_last' = PlainCall("withdraw", amount, "False")
         /\ UNCHANGED <<plain_balance, plain_initial>>

\* bank_account.BankAccount.__init__(initial_balance)
InitPlain(balances) ==
    /\ plain_balance \in balances
    /\ plain_initial = plain_balance
    /\ plain_last = PlainCall("__init__", 0, "None")

\* ------------------------------------------------------- specifications
\* initial_balance=0, notification_system=None: the constructors' defaults.
DefaultBalance == {0}
DefaultSystem == {None}

\* The notifying account and its notification system, driven by any caller.
Init == InitAccounts(InitialBalances, Notifiers \cup {None}) /\ InitPlain(DefaultBalance)

Next ==
    \/ \E acc \in Accounts, amount \in Amounts :
          Deposit(acc, amount) /\ UNCHANGED plainVars
    \/ \E acc \in Accounts, amount \in Amounts :
          Withdraw(acc, amount) /\ UNCHANGED plainVars
    \/ \E acc \in Accounts, ns \in Notifiers \cup {None} :
          SetNotificationSystem(acc, ns) /\ UNCHANGED plainVars
    \/ \E n \in Notifiers :
          ClearNotifications(n) /\ UNCHANGED plainVars

Spec == Init /\ [][Next]_vars

\* The plain account, driven by any caller.
InitPlainOnly == InitAccounts(DefaultBalance, DefaultSystem) /\ InitPlain(InitialBalances)

NextPlain ==
    \/ \E amount \in Amounts : PlainDeposit(amount) /\ UNCHANGED acctVars
    \/ \E amount \in Amounts : PlainWithdraw(amount) /\ UNCHANGED acctVars

SpecPlain == InitPlainOnly /\ [][NextPlain]_vars

\* An account whose notification system the caller replaces: two notifiers.
TwoNotifiers == {"n1", "n2"}

InitReplace ==
    /\ InitAccountsWith(TwoNotifiers, InitialBalances, TwoNotifiers \cup {None})
    /\ InitPlain(DefaultBalance)

NextReplace ==
    \/ \E acc \in Accounts, amount \in Amounts :
          Deposit(acc, amount) /\ UNCHANGED plainVars
    \/ \E acc \in Accounts, amount \in Amounts :
          Withdraw(acc, amount) /\ UNCHANGED plainVars
    \/ \E acc \in Accounts, ns \in TwoNotifiers \cup {None} :
          SetNotificationSystem(acc, ns) /\ UNCHANGED plainVars

SpecReplace == InitReplace /\ [][NextReplace]_vars

\* An account whose caller also reads it and keeps what the reads return.
NextCaller ==
    \/ \E acc \in Accounts, amount \in Amounts :
          Deposit(acc, amount) /\ UNCHANGED plainVars
    \/ \E acc \in Accounts, amount \in Amounts :
          Withdraw(acc, amount) /\ UNCHANGED plainVars
    \/ \E acc \in Accounts : GetBalance(acc) /\ UNCHANGED plainVars
    \/ \E acc \in Accounts : GetTransactionHistory(acc) /\ UNCHANGED plainVars
    \/ \E acc \in Accounts, edit \in ListEdits :
          EditReturnedHistory(acc, edit) /\ UNCHANGED plainVars

SpecCaller == Init /\ [][NextCaller]_vars

\* A notification system its owner also uses directly, beside an account.
NextNotifier ==
    \/ \E n \in Notifiers, message \in CallerMessages, type \in CallerTypes :
          SendNotification(n, message, type) /\ UNCHANGED plainVars
    \/ \E n \in Notifiers : GetNotifications(n) /\ UNCHANGED plainVars
    \/ \E n \in Notifiers : ClearNotifications(n) /\ UNCHANGED plainVars
    \/ \E acc \in Accounts, amount \in Amounts :
          Deposit(acc, amount) /\ UNCHANGED plainVars

SpecNotifier == Init /\ [][NextNotifier]_vars

\* An account whose caller passes any Python value to deposit.
Values == {PyInt(n) : n \in Amounts} \cup NonNumeric \cup {NaN, PosInf, NegInf}

NextValues ==
    \E acc \in Accounts, value \in Values :
        DepositValue(acc, value) /\ UNCHANGED plainVars

SpecValues == Init /\ [][NextValues]_vars

\* One caller drives a notifying account and a plain account side by side:
\* both are constructed with the same initial balance and every deposit or
\* withdraw call is made on both with the same amount.
InitBoth ==
    \E b \in InitialBalances :
        InitAccounts({b}, Notifiers \cup {None}) /\ InitPlain({b})

NextBoth ==
    \/ \E acc \in Accounts, amount \in Amounts :
          Deposit(acc, amount) /\ PlainDeposit(amount)
    \/ \E acc \in Accounts, amount \in Amounts :
          Withdraw(acc, amount) /\ PlainWithdraw(amount)

SpecBoth == InitBoth /\ [][NextBoth]_vars

\* An account whose notifier is a stand-in that answers True or False.
NextStub ==
    \/ \E acc \in Accounts, amount \in Amounts, returned \in SendReturns :
          DepositStubbed(acc, amount, returned) /\ UNCHANGED plainVars
    \/ \E acc \in Accounts, amount \in Amounts, returned \in SendReturns :
          WithdrawStubbed(acc, amount, returned) /\ UNCHANGED plainVars

SpecStub == Init /\ [][NextStub]_vars

\* Two accounts opened with the same balance, "a1" with a notifier and "a2"
\* with none; the caller makes every call on "a1" and then the same call, with
\* the same amount, on "a2".
InitMirror ==
    /\ InitTwoAccounts(InitialBalances, Notifiers \cup {None})
    /\ balance["a1"] = balance["a2"]
    /\ notification_system["a1"] # None
    /\ notification_system["a2"] = None
    /\ InitPlain(DefaultBalance)

NextMirror ==
    \/ \E amount \in Amounts :
          /\ last.acc # "a1"
          /\ Deposit("a1", amount) /\ UNCHANGED plainVars
    \/ \E amount \in Amounts :
          /\ last.acc # "a1"
          /\ Withdraw("a1", amount) /\ UNCHANGED plainVars
    \/ /\ last.acc = "a1" /\ last.op = "deposit"
       /\ Deposit("a2", last.amount) /\ UNCHANGED plainVars
    \/ /\ last.acc = "a1" /\ last.op = "withdraw"
       /\ Withdraw("a2", last.amount) /\ UNCHANGED plainVars

SpecMirror == InitMirror /\ [][NextMirror]_vars

\* Two accounts that hold the same notifier, or none, called in any order.
\* Each opened empty or with the largest initial balance.
PairBalances == {0, MaxInitial}

InitTwo ==
    /\ InitTwoAccounts(PairBalances, Notifiers \cup {None})
    /\ notification_system["a1"] = notification_system["a2"]
    /\ InitPlain(DefaultBalance)

PairOps == successes["a1"] + successes["a2"]

NextTwo ==
    \/ \E acc \in TwoAccounts, amount \in Amounts :
          /\ DepositAccepts(amount) => PairOps < MaxPairOps
          /\ Deposit(acc, amount) /\ UNCHANGED plainVars
    \/ \E acc \in TwoAccounts, amount \in Amounts :
          /\ WithdrawAccepts(amount, balance[acc]) => PairOps < MaxPairOps
          /\ Withdraw(acc, amount) /\ UNCHANGED plainVars

SpecTwo == InitTwo /\ [][NextTwo]_vars

\* ----------------------------------------------------------- properties
\* A step is a call of op on acc when the call it leaves in last says so.
Called(op, acc) == last'.op = op /\ last'.acc = acc

\* C1: deposit(a) with a > 0 adds exactly a to the balance, appends exactly
\* the record {deposit, a, new balance} at the end of the history and
\* returns True.
C1_DepositSucceeds ==
    [][\A acc \in Accounts :
         (Called("deposit", acc) /\ last'.amount > 0) =>
            /\ balance'[acc] = balance[acc] + last'.amount
            /\ transaction_history'[acc] =
                  Append(transaction_history[acc],
                         [type |-> "deposit", amount |-> last'.amount,
                          balance_after |-> balance'[acc]])
            /\ last'.result = "True"]_vars

\* A deposit of a positive amount onto a non-zero balance has returned.
C1_Witness ==
    /\ last.op = "deposit" /\ last.amount > 0 /\ last.result = "True"
    /\ Len(transaction_history[last.acc]) = 2
    /\ balance[last.acc] > last.amount

\* C2: withdraw(a) with 0 < a <= balance takes exactly a off the balance,
\* appends exactly the record {withdrawal, a, new balance} at the end of the
\* history and returns True.
C2_WithdrawSucceeds ==
    [][\A acc \in Accounts :
         (Called("withdraw", acc) /\ 0 < last'.amount /\ last'.amount <= balance[acc]) =>
            /\ balance'[acc] = balance[acc] - last'.amount
            /\ transaction_history'[acc] =
                  Append(transaction_history[acc],
                         [type |-> "withdrawal", amount |-> last'.amount,
                          balance_after |-> balance'[acc]])
            /\ last'.result = "True"]_vars

\* A withdrawal within the balance has returned, after an earlier operation.
C2_Witness ==
    /\ last.op = "withdraw" /\ last.amount > 0 /\ last.result = "True"
    /\ Len(transaction_history[last.acc]) = 2
    /\ transaction_history[last.acc][2].type = "withdrawal"

\* C3: deposit(a) with a <= 0 leaves the balance, the history and every
\* notifier's log as they were, and makes no call to send_notification.
C3_DepositRejectedNoEffect ==
    [][\A acc \in Accounts :
         (Called("deposit", acc) /\ last'.amount <= 0) =>
            /\ UNCHANGED <<balance, transaction_history, notifications>>
            /\ last'.sends = <<>>]_vars

\* A deposit of zero on an account with a notifier attached and a history.
C3_Witness ==
    /\ last.op = "deposit" /\ last.amount = 0
    /\ notification_system[last.acc] # None
    /\ Len(transaction_history[last.acc]) > 0

\* C4: withdraw(a) with a <= 0 or a > balance returns False and leaves the
\* balance, the history and every notifier's log as they were, and makes no
\* call to send_notification.
C4_WithdrawRejectedNoEffect ==
    [][\A acc \in Accounts :
         (Called("withdraw", acc) /\ (last'.amount <= 0 \/ last'.amount > balance[acc])) =>
            /\ last'.result = "False"
            /\ UNCHANGED <<balance, transaction_history, notifications>>
            /\ last'.sends = <<>>]_vars

\* A withdrawal above a positive balance, with a notifier attached.
C4_Witness ==
    /\ last.op = "withdraw" /\ last.result = "False"
    /\ balance[last.acc] > 0 /\ last.amount > balance[last.acc]
    /\ notification_system[last.acc] # None

\* C5: the length of an account's history is the number of deposit and
\* withdraw calls on it that returned True, whatever calls failed in between.
C5_HistoryCountsSuccesses ==
    \A acc \in Accounts : Len(transaction_history[acc]) = successes[acc]

\* Two successful calls and then a failed one.
C5_Witness ==
    /\ last.op \in {"deposit", "withdraw"} /\ last.result = "False"
    /\ successes[last.acc] = 2

\* The notifier an account was constructed with is still its own: the account
\* kept it, no other account was ever attached to it and nobody cleared it.
OwnNotifier(acc) ==
    LET n == initial[acc].notification_system
    IN  /\ n # None
        /\ ~reattached[acc]
        /\ ~cleared[n]
        /\ \A other \in Accounts \ {acc} :
              initial[other].notification_system # n /\ ~reattached[other]

\* C6, as stated: with a notifier attached from construction, its log is as
\* long as the account's history in every reachable state.
C6_AsStated ==
    \A acc \in Accounts :
        initial[acc].notification_system # None =>
            Len(notifications[initial[acc].notification_system])
                = Len(transaction_history[acc])

\* C6, amended: with a notifier attached from construction to this account
\* alone, never replaced and never cleared, its log is as long as the
\* account's history in every reachable state.
C6_OwnNotifierLogMatchesHistory ==
    \A acc \in Accounts :
        OwnNotifier(acc) =>
            Len(notifications[initial[acc].notification_system])
                = Len(transaction_history[acc])

\* An account with its own notifier after a deposit and a withdrawal.
C6_Witness ==
    \E acc \in Accounts :
        /\ OwnNotifier(acc)
        /\ Len(transaction_history[acc]) = 2
        /\ transaction_history[acc][2].type = "withdrawal"
        /\ Len(notifications[initial[acc].notification_system]) = 2

\* The record a successful call of op appends.
RecordType(op) == IF op = "deposit" THEN "deposit" ELSE "withdrawal"

\* C7: a deposit or withdraw call invokes send_notification at most once, and
\* a successful one with a notifier attached invokes it on that notifier when
\* the balance is already the balance the call returns with and the call's
\* record is already the last entry of the history; the message carries that
\* balance.
C7_SendAfterMutationAndAppend ==
    last.op \in {"deposit", "withdraw"} =>
        /\ Len(last.sends) <= 1
        /\ \A i \in 1..Len(last.sends) :
              LET snd == last.sends[i]
                  hist == transaction_history[last.acc]
              IN  /\ last.result = "True"
                  /\ snd.notifier = notification_system[last.acc]
                  /\ snd.balance = balance[last.acc]
                  /\ snd.history = hist
                  /\ hist # <<>>
                  /\ hist[Len(hist)] = [type |-> RecordType(last.op),
                                        amount |-> last.amount,
                                        balance_after |-> balance[last.acc]]
                  /\ snd.message.balance = Fmt2(balance[last.acc])
                  /\ snd.type = RecordType(last.op)
        /\ (last.result = "True" /\ notification_system[last.acc] # None)
              => Len(last.sends) = 1

\* A successful deposit has just notified: one send, after one earlier record.
C7_Witness ==
    /\ last.op = "deposit" /\ last.result = "True"
    /\ Len(last.sends) = 1
    /\ Len(transaction_history[last.acc]) = 2

\* C8: a deposit or withdraw call does all of its three effects or none: it
\* changes the balance, appends exactly one record and, with a notifier
\* attached, sends exactly one notification to it (none anywhere else); or it
\* changes no balance, no history and no log and sends nothing.
C8_AllOrNothing ==
    [][\A acc \in Accounts :
         (Called("deposit", acc) \/ Called("withdraw", acc)) =>
            LET ns == notification_system[acc]
                all ==
                    /\ balance'[acc] # balance[acc]
                    /\ Len(transaction_history'[acc]) = Len(transaction_history[acc]) + 1
                    /\ SubSeq(transaction_history'[acc], 1, Len(transaction_history[acc]))
                          = transaction_history[acc]
                    /\ \A n \in Notifiers :
                          IF n = ns
                          THEN /\ Len(notifications'[n]) = Len(notifications[n]) + 1
                               /\ SubSeq(notifications'[n], 1, Len(notifications[n]))
                                     = notifications[n]
                          ELSE notifications'[n] = notifications[n]
                    /\ Len(last'.sends) = (IF ns # None THEN 1 ELSE 0)
                nothing ==
                    /\ UNCHANGED <<balance, transaction_history, notifications>>
                    /\ last'.sends = <<>>
            IN  /\ all \/ nothing
                /\ \A other \in Accounts \ {acc} :
                      /\ balance'[other] = balance[other]
                      /\ transaction_history'[other] = transaction_history[other]]_vars

\* A successful withdrawal with a notifier attached, and its notification.
C8_Witness ==
    /\ last.op = "withdraw" /\ last.result = "True"
    /\ notification_system[last.acc] # None
    /\ Len(last.sends) = 1
    /\ Len(notifications[notification_system[last.acc]]) = 2

\* C9: on the plain BankAccount, deposit and withdraw hand back a boolean
\* and never raise: deposit returns True exactly when amount > 0, withdraw
\* exactly when 0 < amount <= balance, and a call that returns False leaves
\* the balance as it was.
C9_BooleanResultPolicy ==
    [][/\ plain_last'.op = "deposit" =>
            /\ plain_last'.result
                  = (IF plain_last'.amount > 0 THEN "True" ELSE "False")
            /\ plain_last'.result = "False" => UNCHANGED plain_balance
       /\ plain_last'.op = "withdraw" =>
            /\ plain_last'.result
                  = (IF 0 < plain_last'.amount /\ plain_last'.amount <= plain_balance
                     THEN "True" ELSE "False")
            /\ plain_last'.result = "False" => UNCHANGED plain_balance]_vars

\* A rejected withdrawal above a positive balance on the plain account.
C9_Witness ==
    /\ plain_last.op = "withdraw" /\ plain_last.result = "False"
    /\ plain_balance > 0 /\ plain_last.amount > plain_balance

\* C10: on the notifying BankAccount, deposit(a) with a <= 0 raises ValueError
\* instead of returning a result.
C10_DepositNonPositiveRaises ==
    (last.op = "deposit" /\ last.amount <= 0) => last.result = "ValueError"

\* A notification describes a history record: same kind, and a message that
\* carries the record's amount and balance_after.
Describes(note, rec) ==
    /\ note.type = rec.type
    /\ note.message.amount = Fmt2(rec.amount)
    /\ note.message.balance = Fmt2(rec.balance_after)

\* The notification a successful call of op with this amount and resulting
\* balance sends.
NoteOf(op, amount, bal) ==
    [message |-> IF op = "deposit" THEN DepositMessage(amount, bal)
                 ELSE WithdrawalMessage(amount, bal),
     type |-> RecordType(op), timestamp |-> None]

\* The notifications of log describe records of hist, in the order of hist.
RECURSIVE Embeds(_, _)
Embeds(log, hist) ==
    IF log = <<>> THEN TRUE
    ELSE IF hist = <<>> THEN FALSE
    ELSE \/ Describes(Head(log), Head(hist)) /\ Embeds(Tail(log), Tail(hist))
         \/ Embeds(log, Tail(hist))

\* C11: set_notification_system(n) sends nothing and leaves balance, history
\* and every log unchanged; every later successful deposit or withdraw appends
\* exactly one notification, its own, to the log of the notifier attached at
\* that moment and nothing to any other log (so nothing to a notifier attached
\* before); hence a notifier's log holds only operations of the history, in
\* their order, while the history holds all of them.
C11_SetNotifierRoutesLaterOperations ==
    /\ [][\A acc \in Accounts :
            /\ Called("set_notification_system", acc) =>
                  /\ UNCHANGED <<balance, transaction_history, notifications>>
                  /\ last'.sends = <<>>
            /\ ((Called("deposit", acc) \/ Called("withdraw", acc))
                    /\ last'.result = "True") =>
                  \A n \in DOMAIN notifications :
                      notifications'[n] =
                          IF n = notification_system[acc]
                          THEN Append(notifications[n],
                                      NoteOf(last'.op, last'.amount, balance'[acc]))
                          ELSE notifications[n]]_vars
    /\ [](\A acc \in Accounts :
            /\ Len(transaction_history[acc]) = successes[acc]
            /\ \A n \in DOMAIN notifications :
                  (\A other \in Accounts \ {acc} :
                      initial[other].notification_system = None /\ ~reattached[other])
                  => Embeds(notifications[n], transaction_history[acc]))

\* An account constructed without a notifier made a deposit, was given n2 and
\* made a second deposit: n2 holds the second only, the history holds both.
C11_Witness ==
    /\ initial["a1"].notification_system = None
    /\ notification_system["a1"] = "n2"
    /\ last.op = "deposit" /\ last.result = "True"
    /\ Len(transaction_history["a1"]) = 2
    /\ "n2" \in DOMAIN notifications
    /\ Len(notifications["n2"]) = 1
    /\ Describes(notifications["n2"][1], transaction_history["a1"][2])

\* C12: nothing a caller does to the value get_transaction_history returned
\* (appending, removing or altering an element) changes the account's
\* transaction history.
C12_ReturnedHistoryIsReadOnly ==
    [][\A acc \in Accounts :
         Called("edit_returned_history", acc) => UNCHANGED transaction_history]_vars

\* C16: get_balance and get_transaction_history are pure reads: each returns
\* the current balance (history) and leaves balance, history, attached notifier
\* and logs unchanged, and a read that directly follows a read of the same
\* kind on the same account returns the same result.
C16_ReadsArePure ==
    [][\A acc \in Accounts :
         /\ Called("get_balance", acc) =>
               /\ UNCHANGED <<balance, transaction_history, notification_system,
                              notifications>>
               /\ last'.result = balance[acc]
               /\ (last.op = "get_balance" /\ last.acc = acc)
                     => last'.result = last.result
         /\ Called("get_transaction_history", acc) =>
               /\ UNCHANGED <<balance, transaction_history, notification_system,
                              notifications>>
               /\ last'.result = transaction_history[acc]
               /\ (last.op = "get_transaction_history" /\ last.acc = acc)
                     => last'.result = last.result]_vars

\* A read of a history of two records has returned.
C16_Witness ==
    /\ last.op = "get_transaction_history"
    /\ Len(last.result) = 2
    /\ last.result = transaction_history[last.acc]
    /\ balance[last.acc] > 0

\* Scenario C: Account(100, notifier); deposit(50).
ScenarioC ==
    LET n == CHOOSE x \in Notifiers : TRUE
        s == DepositSteps([balance |-> 100, history |-> <<>>,
                           log |-> [x \in Notifiers |-> NewNotifications],
                           sends |-> <<>>], 50, n)
    IN  s.log[n]

\* C13: with a notifier attached to one account from construction on and never
\* cleared, the k-th notification in its log describes the k-th history record:
\* its category is the record's kind (deposit or withdrawal) and its message
\* carries the record's amount and balance_after, both with two decimals; and
\* Account(100) deposit(50) yields exactly one notification, of category
\* deposit, naming 50.00 and 150.00.
C13_NotificationsDescribeHistory ==
    /\ \A acc \in Accounts :
          OwnNotifier(acc) =>
             LET log == notifications[initial[acc].notification_system]
                 hist == transaction_history[acc]
             IN  /\ Len(log) = Len(hist)
                 /\ \A k \in 1..Len(log) :
                       /\ Describes(log[k], hist[k])
                       /\ log[k].type \in {"deposit", "withdrawal"}
    /\ Len(ScenarioC) = 1
    /\ ScenarioC[1].type = "deposit"
    /\ ScenarioC[1].message.amount = [sign |-> "", whole |-> 50, frac |-> "00"]
    /\ ScenarioC[1].message.balance = [sign |-> "", whole |-> 150, frac |-> "00"]

\* A withdrawal and then a deposit, each with its notification in place.
C13_Witness ==
    \E acc \in Accounts :
        /\ OwnNotifier(acc)
        /\ Len(transaction_history[acc]) = 2
        /\ transaction_history[acc][1].type = "withdrawal"
        /\ transaction_history[acc][2].type = "deposit"
        /\ notifications[initial[acc].notification_system][2].type = "deposit"
        /\ notifications[initial[acc].notification_system][2].message.balance
              = Fmt2(balance[acc])

\* C14: send_notification(message, type) returns True and appends exactly one
\* record {message, type, timestamp None} at the end of that notifier's log,
\* with type info when the caller leaves it out, and changes nothing before
\* it nor any other log; an account's deposit appends its notification at the
\* end in the same way; get_notifications returns the log, which is therefore
\* in the order of the sends.
C14_SendAppendsInOrder ==
    [][/\ \A n \in Notifiers :
            /\ Called("send_notification", n) =>
                  /\ last'.result = "True"
                  /\ notifications' =
                        [notifications EXCEPT ![n] =
                            Append(@, [message |-> last'.amount.message,
                                       type |-> IF last'.amount.type = Omitted
                                                THEN "info" ELSE last'.amount.type,
                                       timestamp |-> None])]
            /\ Called("get_notifications", n) =>
                  /\ last'.result = notifications[n]
                  /\ UNCHANGED notifications
       /\ \A acc \in Accounts :
            (Called("deposit", acc) /\ last'.result = "True"
                /\ notification_system[acc] # None) =>
               notifications' =
                  [notifications EXCEPT ![notification_system[acc]] =
                      Append(@, NoteOf("deposit", last'.amount, balance'[acc]))]]_vars

\* get_notifications has returned a deposit's notification followed by one a
\* caller sent without a type.
C14_Witness ==
    /\ last.op = "get_notifications"
    /\ Len(last.result) >= 2
    /\ last.result[1].type = "deposit"
    /\ last.result[2] = [message |-> [text |-> "hello"], type |-> "info",
                         timestamp |-> None]

\* C15: clear_notifications leaves that notifier's log empty and changes no
\* account's balance, history or attached notifier, nor any other log; and a
\* notification sent to an empty log becomes its only record.
C15_ClearEmptiesLogOnly ==
    [][/\ \A n \in Notifiers :
            Called("clear_notifications", n) =>
               /\ notifications'[n] = <<>>
               /\ \A m \in Notifiers \ {n} : notifications'[m] = notifications[m]
               /\ UNCHANGED <<balance, transaction_history, notification_system>>
       /\ \A acc \in Accounts :
            ((Called("deposit", acc) \/ Called("withdraw", acc))
                /\ last'.result = "True"
                /\ notification_system[acc] # None
                /\ notifications[notification_system[acc]] = <<>>) =>
               notifications'[notification_system[acc]]
                  = <<NoteOf(last'.op, last'.amount, balance'[acc])>>]_vars

\* After a clear, the next operation's notification is alone in the log while
\* the history holds two records.
C15_Witness ==
    \E acc \in Accounts :
        /\ notification_system[acc] # None
        /\ cleared[notification_system[acc]]
        /\ Len(notifications[notification_system[acc]]) = 1
        /\ Len(transaction_history[acc]) = 2
        /\ Describes(notifications[notification_system[acc]][1],
                     transaction_history[acc][2])

\* C17: deposit with a non-numeric amount (str, None, list, dict, tuple,
\* complex) raises TypeError, leaves balance and history as they were and
\* makes no call to send_notification.
C17_NonNumericDepositRaisesTypeError ==
    [][\A acc \in Accounts :
         (Called("deposit", acc) /\ last'.amount.kind \in NonNumericKinds) =>
            /\ last'.result = "TypeError"
            /\ UNCHANGED <<balance, transaction_history, notifications>>
            /\ last'.sends = <<>>]_vars

\* deposit(1j) on an account with a notifier attached and one record.
C17_Witness ==
    /\ last.op = "deposit" /\ last.result = "TypeError"
    /\ last.amount.kind = "complex"
    /\ notification_system[last.acc] # None
    /\ Len(transaction_history[last.acc]) = 1

\* C18: deposit with nan, inf or -inf raises ValueError, makes no call to
\* send_notification and leaves balance and history as they were.
C18_NanInfDepositRaisesValueError ==
    [][\A acc \in Accounts :
         (Called("deposit", acc) /\ last'.amount.kind = "float") =>
            /\ last'.result = "ValueError"
            /\ UNCHANGED <<balance, transaction_history, notifications>>
            /\ last'.sends = <<>>]_vars

\* What a record did to the balance: a deposit added its amount, a withdrawal
\* took it off.
Signed(record) ==
    IF record.type = "deposit" THEN record.amount ELSE 0 - record.amount

RECURSIVE NetOf(_)
NetOf(h) == IF h = <<>> THEN 0 ELSE Signed(Head(h)) + NetOf(Tail(h))

\* C19: the history is a running ledger. Each record's balance_after is the
\* balance_after of the record before it (the initial balance for the first
\* record) plus its amount for a deposit, minus its amount for a withdrawal;
\* the last record's balance_after is the current balance; and the balance is
\* the initial balance plus the deposits minus the withdrawals of the history.
C19_HistoryIsRunningLedger ==
    \A acc \in Accounts :
        LET h == transaction_history[acc]
            start == initial[acc].balance
        IN  /\ \A i \in 1..Len(h) :
                  h[i].balance_after =
                     (IF i = 1 THEN start ELSE h[i-1].balance_after) + Signed(h[i])
            /\ Len(h) > 0 => h[Len(h)].balance_after = balance[acc]
            /\ balance[acc] = start + NetOf(h)

\* An account opened with a non-zero balance holds a withdrawal followed by a
\* deposit of a different amount.
C19_Witness ==
    \E acc \in Accounts :
        LET h == transaction_history[acc]
        IN  /\ initial[acc].balance # 0
            /\ Len(h) = 2
            /\ h[1].type = "withdrawal" /\ h[2].type = "deposit"
            /\ h[1].amount # h[2].amount

IsPrefix(s, t) == Len(s) <= Len(t) /\ SubSeq(t, 1, Len(s)) = s

\* C20: the history is append-only. In every step the history before is a
\* prefix of the history after, at most one record is added, and a call that
\* returned True added its own record at the end.
C20_HistoryIsAppendOnly ==
    [][\A acc \in Accounts :
         /\ IsPrefix(transaction_history[acc], transaction_history'[acc])
         /\ Len(transaction_history'[acc]) <= Len(transaction_history[acc]) + 1
         /\ (last'.acc = acc /\ last'.op \in {"deposit", "withdraw"}
                /\ last'.result = "True") =>
                LET h == transaction_history'[acc]
                IN  /\ Len(h) = Len(transaction_history[acc]) + 1
                    /\ h[Len(h)].type = RecordType(last'.op)
                    /\ h[Len(h)].amount = last'.amount]_vars

\* A withdrawal was recorded behind an earlier deposit, and calls that leave
\* the history alone followed.
C20_Witness ==
    \E acc \in Accounts :
        LET h == transaction_history[acc]
        IN  /\ Len(h) = 2
            /\ h[1].type = "deposit" /\ h[2].type = "withdrawal"
            /\ last.op \in {"set_notification_system", "clear_notifications"}

\* C21: a withdraw of exactly the balance b > 0 returns True and leaves 0; at
\* balance 0 every withdraw returns False and leaves 0; the balance leaves 0
\* only by a deposit that returned True; and a withdraw of an amount from 1 up
\* to the balance returns True, also after the account was empty.
C21_EmptiedAccountRefusesUntilDeposit ==
    [][\A acc \in Accounts :
         /\ (Called("withdraw", acc) /\ balance[acc] > 0
               /\ last'.amount = balance[acc]) =>
               last'.result = "True" /\ balance'[acc] = 0
         /\ (Called("withdraw", acc) /\ balance[acc] = 0) =>
               last'.result = "False" /\ balance'[acc] = 0
         /\ (balance[acc] = 0 /\ balance'[acc] # 0) =>
               Called("deposit", acc) /\ last'.result = "True"
         /\ (Called("withdraw", acc) /\ 0 < last'.amount
               /\ last'.amount <= balance[acc]) =>
               last'.result = "True" /\ balance'[acc] = balance[acc] - last'.amount]_vars

\* An account opened empty took a deposit and then paid all of it out again.
C21_Witness ==
    \E acc \in Accounts :
        LET h == transaction_history[acc]
        IN  /\ initial[acc].balance = 0
            /\ Len(h) = 2
            /\ h[1].type = "deposit" /\ h[2].type = "withdrawal"
            /\ h[2].amount = h[1].amount
            /\ balance[acc] = 0
            /\ last.op = "withdraw" /\ last.acc = acc /\ last.result = "True"

\* C23: every record of every history has type deposit or withdrawal and an
\* amount above zero, and a deposit or withdraw call that returned False left
\* the history as it was.
C23_RecordsAreValidated ==
    /\ [](\A acc \in Accounts :
            \A i \in 1..Len(transaction_history[acc]) :
               /\ transaction_history[acc][i].type \in {"deposit", "withdrawal"}
               /\ transaction_history[acc][i].amount > 0)
    /\ [][\A acc \in Accounts :
            (last'.acc = acc /\ last'.op \in {"deposit", "withdraw"}
               /\ last'.result = "False") =>
               UNCHANGED transaction_history]_vars

\* A history with a record of each type, and a refused call after them.
C23_Witness ==
    \E acc \in Accounts :
        LET h == transaction_history[acc]
        IN  /\ Len(h) = 2
            /\ {h[1].type, h[2].type} = {"deposit", "withdrawal"}
            /\ last.acc = acc /\ last.op = "withdraw" /\ last.result = "False"
            /\ last.amount > 0

Min(x, y) == IF x < y THEN x ELSE y

\* C22: the balance never falls below min(initial balance, 0), so an account
\* opened with a balance of 0 or more never goes negative; and while the
\* balance is negative every withdraw returns False and leaves it unchanged.
\* For the notifying account and for the plain one.
C22_BalanceFloor ==
    /\ [](/\ \A acc \in Accounts : balance[acc] >= Min(initial[acc].balance, 0)
          /\ plain_balance >= Min(plain_initial, 0))
    /\ [][/\ \A acc \in Accounts :
               (Called("withdraw", acc) /\ balance[acc] < 0) =>
                  last'.result = "False" /\ balance'[acc] = balance[acc]
          /\ (plain_last'.op = "withdraw" /\ plain_balance < 0) =>
                plain_last'.result = "False" /\ plain_balance' = plain_balance]_vars

\* Both accounts were opened in debt and have refused a withdraw of 1.
C22_Witness ==
    /\ plain_initial < 0 /\ plain_balance < 0
    /\ plain_last.op = "withdraw" /\ plain_last.amount = 1
    /\ plain_last.result = "False"
    /\ \E acc \in Accounts :
          /\ initial[acc].balance < 0 /\ balance[acc] < 0
          /\ last.acc = acc /\ last.op = "withdraw" /\ last.amount = 1
          /\ last.result = "False"

\* C24: the account ignores what send_notification returns. A deposit or
\* withdraw whose amount passes the test returns True, changes the balance by
\* the amount and appends its record whether the send returned True or False;
\* and every such call on an account with a notifier makes exactly one send,
\* also after an earlier send returned False.
C24_SendResultIgnored ==
    [][\A acc \in Accounts :
         LET amount == last'.amount
             accepted == IF last'.op = "deposit"
                         THEN amount > 0
                         ELSE 0 < amount /\ amount <= balance[acc]
             delta == IF last'.op = "deposit" THEN amount ELSE 0 - amount
             ns == notification_system[acc]
         IN  (last'.acc = acc /\ last'.op \in {"deposit", "withdraw"} /\ accepted) =>
                /\ last'.result = "True"
                /\ balance'[acc] = balance[acc] + delta
                /\ transaction_history'[acc] =
                      Append(transaction_history[acc],
                             [type |-> RecordType(last'.op), amount |-> amount,
                              balance_after |-> balance'[acc]])
                /\ ns # None =>
                      /\ Len(last'.sends) = 1
                      /\ last'.sends[1].returned \in SendReturns
                      /\ Len(notifications'[ns]) = Len(notifications[ns]) + 1
                /\ ns = None => last'.sends = <<>>]_vars

\* A send returned False, the call returned True all the same, and the next
\* successful call sent again (and was answered True).
C24_Witness ==
    \E acc \in Accounts, n \in Notifiers :
        /\ notification_system[acc] = n
        /\ Len(notifications[n]) = 2
        /\ notifications[n][1].returned = "False"
        /\ notifications[n][2].returned = "True"
        /\ Len(transaction_history[acc]) = 2
        /\ last.acc = acc /\ last.result = "True" /\ Len(last.sends) = 1

\* C25: a notifier does not influence its account. Of two accounts opened
\* with the same balance, one with a notifier and one without, that receive
\* the same calls, each call returns the same value on both, and after each
\* call made on both the balances and the histories are the same.
C25_NotifierDoesNotInfluenceAccount ==
    /\ [][(last.acc = "a1" /\ last'.acc = "a2") =>
             /\ last'.op = last.op /\ last'.amount = last.amount
             /\ last'.result = last.result
             /\ balance'["a2"] = balance'["a1"]
             /\ transaction_history'["a2"] = transaction_history'["a1"]]_vars
    /\ [](last.acc # "a1" =>
             /\ balance["a2"] = balance["a1"]
             /\ transaction_history["a2"] = transaction_history["a1"])

\* Both accounts took the same two successful calls and a refused one; only
\* the first account's calls reached the notifier.
C25_Witness ==
    /\ last.acc = "a2" /\ last.result = "False"
    /\ Len(transaction_history["a2"]) = 2
    /\ transaction_history["a2"][1].type # transaction_history["a2"][2].type
    /\ notification_system["a2"] = None
    /\ notification_system["a1"] # None
    /\ Len(notifications[notification_system["a1"]]) = 2

\* C26: accounts are independent. A deposit or withdraw on one account leaves
\* the balance and the history of the other account as they were, in any
\* order of calls on the two, also when both hold the same notifier.
C26_AccountsAreIndependent ==
    [][\A acc \in TwoAccounts : \A other \in TwoAccounts \ {acc} :
         (last'.acc = acc /\ last'.op \in {"deposit", "withdraw"}) =>
            /\ balance'[other] = balance[other]
            /\ transaction_history'[other] = transaction_history[other]]_vars

\* Two accounts on one notifier, the calls on them interleaved: the second
\* account's one call came between the first account's two.
C26_Witness ==
    /\ notification_system["a1"] # None
    /\ notification_system["a1"] = notification_system["a2"]
    /\ Len(transaction_history["a1"]) = 2
    /\ Len(transaction_history["a2"]) = 1
    /\ last.acc = "a1" /\ last.result = "True"
    /\ LET log == notifications[notification_system["a1"]]
       IN  /\ Len(log) = 3
           /\ log[2].type = "withdrawal" /\ log[1].type = "deposit"
           /\ log[3].type = "deposit"
           /\ transaction_history["a2"][1].type = "withdrawal"

\* log is an interleaving of the notifications of h1 and of h2: every entry
\* describes the next record of one of the two histories, and all records of
\* both are described.
RECURSIVE IsMerge(_, _, _)
IsMerge(log, h1, h2) ==
    IF log = <<>>
    THEN h1 = <<>> /\ h2 = <<>>
    ELSE \/ /\ h1 # <<>>
            /\ Describes(Head(log), Head(h1))
            /\ IsMerge(Tail(log), Tail(h1), h2)
         \/ /\ h2 # <<>>
            /\ Describes(Head(log), Head(h2))
            /\ IsMerge(Tail(log), h1, Tail(h2))

\* The notifier both accounts were constructed with and still hold, its log
\* never cleared; None if there is no such notifier.
SharedNotifier ==
    LET n == initial["a1"].notification_system
    IN  IF /\ n # None
           /\ initial["a2"].notification_system = n
           /\ \A acc \in TwoAccounts : notification_system[acc] = n /\ ~reattached[acc]
           /\ ~cleared[n]
        THEN n
        ELSE None

\* C27: when two accounts share one notifier from construction and its log is
\* never cleared, the log is as long as the two histories together and holds
\* each account's notifications in the order of that account's history (the
\* log is an interleaving of the two); every successful call appends its own
\* notification at the end and leaves the entries before it alone.
C27_SharedLogInterleavesHistories ==
    /\ [](SharedNotifier # None =>
            LET log == notifications[SharedNotifier]
            IN  /\ Len(log) = Len(transaction_history["a1"])
                                + Len(transaction_history["a2"])
                /\ IsMerge(log, transaction_history["a1"], transaction_history["a2"]))
    /\ [][\A acc \in TwoAccounts :
            (SharedNotifier # None /\ last'.acc = acc
               /\ last'.op \in {"deposit", "withdraw"} /\ last'.result = "True") =>
               notifications'[SharedNotifier] =
                  Append(notifications[SharedNotifier],
                         NoteOf(last'.op, last'.amount, balance'[acc]))]_vars

\* Calls on "a2", "a1", "a2" in this order, all successful: the log holds the
\* notification of "a1" between the two of "a2".
C27_Witness ==
    /\ SharedNotifier # None
    /\ Len(transaction_history["a1"]) = 1
    /\ Len(transaction_history["a2"]) = 2
    /\ LET log == notifications[SharedNotifier]
       IN  /\ Len(log) = 3
           /\ Describes(log[1], transaction_history["a2"][1])
           /\ Describes(log[2], transaction_history["a1"][1])
           /\ Describes(log[3], transaction_history["a2"][2])
           /\ ~Describes(log[2], transaction_history["a2"][2])
           /\ ~Describes(log[2], transaction_history["a2"][1])

\* The balance an account had before the call that wrote its latest record.
BalanceBeforeLatest(acc) ==
    LET h == transaction_history[acc]
    IN  IF Len(h) = 1 THEN initial[acc].balance ELSE h[Len(h) - 1].balance_after

\* C28: deposit(a) and then withdraw(a) is a round trip. On an account with
\* balance b >= 0, for a > 0, the deposit returned True, the withdraw that
\* follows it returns True and leaves the balance at b, and the history has
\* grown by exactly the deposit's record and then the withdrawal's record. The
\* plain account, given the same two calls, returns True twice and is back at
\* b as well.
C28_DepositWithdrawRoundTrip ==
    [][\A acc \in Accounts :
         LET a == last.amount
             b == BalanceBeforeLatest(acc)
             h == transaction_history[acc]
         IN  (/\ last.op = "deposit" /\ last.acc = acc /\ a > 0
              /\ b >= 0
              /\ Called("withdraw", acc) /\ last'.amount = a) =>
                /\ last.result = "True" /\ last'.result = "True"
                /\ balance[acc] = b + a
                /\ balance'[acc] = b
                /\ transaction_history'[acc] =
                      SubSeq(h, 1, Len(h) - 1)
                         \o <<[type |-> "deposit", amount |-> a, balance_after |-> b + a],
                              [type |-> "withdrawal", amount |-> a, balance_after |-> b]>>
                /\ plain_last.result = "True" /\ plain_last'.result = "True"
                /\ plain_balance = b + a
                /\ plain_balance' = b]_vars

\* deposit(2) and withdraw(2) on accounts opened with a balance of 1.
C28_Witness ==
    \E acc \in Accounts :
        /\ last.op = "withdraw" /\ last.acc = acc /\ last.result = "True"
        /\ last.amount = 2
        /\ transaction_history[acc] =
              <<[type |-> "deposit", amount |-> 2, balance_after |-> 3],
                [type |-> "withdrawal", amount |-> 2, balance_after |-> 1]>>
        /\ balance[acc] = 1 /\ initial[acc].balance = 1
        /\ plain_balance = 1 /\ plain_initial = 1

====
